---- MODULE Spec2Model ----
(***************************************************************************)
(* Model of metalgbm's two primitives:                                     *)
(*   src/src/histogram.rs  Histogram::{from_feature, accumulate,           *)
(*                         search_bin_index}                               *)
(*   src/src/tree.rs       Tree::{new, predict, predict_recursive}         *)
(*                                                                         *)
(* f32 values are modelled by the integers that are f32 values: every      *)
(* integer of magnitude up to 2^24, and above that the multiples of the    *)
(* spacing of their binade.  f32 comparison and equality agree with the    *)
(* integers on them; f32 addition is the integer sum rounded to the        *)
(* nearest f32, ties to even (RoundF32).  NaN, the infinities, the two     *)
(* zeros and fractions are outside the modelled domain.                    *)
(*                                                                         *)
(* A Rust panic (index out of bounds, division by zero) is the outcome     *)
(* "panic": the call returns no value and the histogram it was mutating    *)
(* keeps whatever had been written before the panic.                       *)
(***************************************************************************)
EXTENDS Integers, Sequences, FiniteSets, TLC

VARIABLES
    phase,       \* "new": from_feature not yet called; "built"; "panicked"
    col,         \* the feature column handed to from_feature
    max_bins,    \* the bin budget handed to from_feature
    bins,        \* Histogram::bins
    gradients,   \* Histogram::gradients
    hessians,    \* Histogram::hessians
    lookup,      \* the last search_bin_index call: its argument and result
    calls,       \* the accumulate calls made so far: arguments, outcome, sums after
    tree,        \* Tree::root
    features,    \* the feature vector handed to predict
    prediction   \* the outcome of predict

vars == <<phase, col, max_bins, bins, gradients, hessians, lookup, calls,
          tree, features, prediction>>

histVars == <<phase, col, max_bins, bins, gradients, hessians, lookup, calls>>
treeVars == <<tree, features, prediction>>

----------------------------------------------------------------------------
(* Bounds *)

\* longest feature column handed to from_feature
MaxLen == 4
\* largest bin budget (budgets are 0..MaxBins)
MaxBins == 3

\* the feature values of the columns
Vals == {0, 1, 2, 3}
\* the arguments of search_bin_index: the feature values and one value on each side
QueryVals == {0 - 1, 0, 1, 2, 3, 4}

RECURSIVE SeqsUpTo(_, _)
SeqsUpTo(S, n) ==
    IF n = 0 THEN {<<>>}
    ELSE LET shorter == SeqsUpTo(S, n - 1)
         IN  shorter \cup {Append(s, x) : s \in {t \in shorter : Len(t) = n - 1}, x \in S}

Columns == SeqsUpTo(Vals, MaxLen)

Min(a, b) == IF a <= b THEN a ELSE b

\* f32 has a 24-bit significand: the integers up to 2^24 are all f32 values
F32Exact == 16777216

\* the spacing of the f32 values around magnitude m >= 2^24
RECURSIVE F32Spacing(_, _)
F32Spacing(m, q) == IF m \div q < F32Exact THEN q ELSE F32Spacing(m, 2 * q)

\* the f32 nearest to the integer n, ties to the even significand
RoundF32(n) ==
    LET m == IF n < 0 THEN 0 - n ELSE n
        q == F32Spacing(m, 1)
        lo == (m \div q) * q
        rest == m - lo
        r == IF 2 * rest < q THEN lo
             ELSE IF 2 * rest > q THEN lo + q
             ELSE IF (m \div q) % 2 = 0 THEN lo ELSE lo + q
    IN  IF n < 0 THEN 0 - r ELSE r

----------------------------------------------------------------------------
(* Histogram::from_feature *)

\* the stable insertion of x into the ascending sequence s (after its equals)
RECURSIVE InsertSorted(_, _)
InsertSorted(x, s) ==
    IF s = <<>> THEN <<x>>
    ELSE IF x < Head(s) THEN <<x>> \o s
    ELSE <<Head(s)>> \o InsertSorted(x, Tail(s))

\* sorted_values.sort_by(|a, b| a.partial_cmp(b).unwrap()): stable, ascending
RECURSIVE SortValues(_)
SortValues(s) ==
    IF s = <<>> THEN <<>>
    ELSE InsertSorted(s[Len(s)], SortValues(SubSeq(s, 1, Len(s) - 1)))

\* Vec::dedup: removes every element equal to the one before it
RECURSIVE Dedup(_)
Dedup(s) ==
    IF Len(s) <= 1 THEN s
    ELSE IF s[1] = s[2] THEN Dedup(Tail(s))
    ELSE <<s[1]>> \o Dedup(Tail(s))

\* faulty variant: the sort is left out
SortedValues_unsorted(feature_values) == Dedup(feature_values)

SortedValues(feature_values) == Dedup(SortValues(feature_values))

Zeros(n) == [i \in 1 .. n |-> 0]

\* faulty variant: the stat vectors are sized like bins, num_bins + 1
from_feature_stats_like_bins(feature_values, mb) ==
    LET sorted_values == SortedValues(feature_values)
        n_unique == Len(sorted_values)
    IN  IF n_unique = 0
        THEN [status |-> "ok", bins |-> <<>>, gradients |-> <<>>, hessians |-> <<>>]
        ELSE IF n_unique = 1
        THEN [status |-> "ok", bins |-> <<sorted_values[1]>>,
              gradients |-> <<0>>, hessians |-> <<0>>]
        ELSE LET num_bins == Min(mb, n_unique - 1)
             IN  IF num_bins = 0
                 THEN [status |-> "panic", bins |-> <<>>,
                       gradients |-> <<>>, hessians |-> <<>>]
                 ELSE [status |-> "ok",
                       bins |-> [i \in 1 .. num_bins + 1 |->
                                   sorted_values[(((i - 1) * (n_unique - 1)) \div num_bins) + 1]],
                       gradients |-> Zeros(num_bins + 1),
                       hessians |-> Zeros(num_bins + 1)]

\* faulty variant: the boundary index is rounded up instead of down
from_feature_round_up(feature_values, mb) ==
    LET sorted_values == SortedValues(feature_values)
        n_unique == Len(sorted_values)
    IN  IF n_unique = 0
        THEN [status |-> "ok", bins |-> <<>>, gradients |-> <<>>, hessians |-> <<>>]
        ELSE IF n_unique = 1
        THEN [status |-> "ok", bins |-> <<sorted_values[1]>>,
              gradients |-> <<0>>, hessians |-> <<0>>]
        ELSE LET num_bins == Min(mb, n_unique - 1)
             IN  IF num_bins = 0
                 THEN [status |-> "panic", bins |-> <<>>,
                       gradients |-> <<>>, hessians |-> <<>>]
                 ELSE [status |-> "ok",
                       bins |-> [i \in 1 .. num_bins + 1 |->
                                   sorted_values[(((i - 1) * (n_unique - 1) + num_bins - 1)
                                                     \div num_bins) + 1]],
                       gradients |-> Zeros(num_bins),
                       hessians |-> Zeros(num_bins)]

\* the value from_feature returns, or the panic it ends in.  Sequences are
\* 1-based here: bins[i + 1] is the code's bins[i].
from_feature(feature_values, mb) ==
    LET sorted_values == SortedValues(feature_values)
        n_unique == Len(sorted_values)
    IN  IF n_unique = 0
        THEN [status |-> "ok", bins |-> <<>>, gradients |-> <<>>, hessians |-> <<>>]
        ELSE IF n_unique = 1
        THEN [status |-> "ok", bins |-> <<sorted_values[1]>>,
              gradients |-> <<0>>, hessians |-> <<0>>]
        ELSE LET num_bins == Min(mb, n_unique - 1)
             IN  IF num_bins = 0
                 \* (i * (n_unique - 1)) / num_bins at i = 0: division by zero
                 THEN [status |-> "panic", bins |-> <<>>,
                       gradients |-> <<>>, hessians |-> <<>>]
                 ELSE [status |-> "ok",
                       bins |-> [i \in 1 .. num_bins + 1 |->
                                   sorted_values[(((i - 1) * (n_unique - 1)) \div num_bins) + 1]],
                       gradients |-> Zeros(num_bins),
                       hessians |-> Zeros(num_bins)]

----------------------------------------------------------------------------
(* Histogram::search_bin_index *)

\* faulty variant: the predicate is boundary < v
partition_point_strict(bs, v) ==
    CHOOSE k \in 0 .. Len(bs) :
        /\ \A i \in 1 .. k : bs[i] < v
        /\ k < Len(bs) => ~(bs[k + 1] < v)

\* slice::partition_point(|&boundary| boundary <= v): the length of the
\* leading run of boundaries satisfying the predicate
partition_point(bs, v) ==
    CHOOSE k \in 0 .. Len(bs) :
        /\ \A i \in 1 .. k : bs[i] <= v
        /\ k < Len(bs) => ~(bs[k + 1] <= v)

\* the 0-based bin index search_bin_index returns.  gradients.len() - 1
\* underflows usize when gradients is empty; that branch needs idx > 0, so
\* a non-empty bins with empty gradients, which no constructor produces.
search_bin_index(bs, gs, v) ==
    LET idx == partition_point(bs, v)
    IN  IF idx = 0 THEN 0 ELSE Min(idx - 1, Len(gs) - 1)

NoLookup == [value |-> 0 - 2, result |-> 0 - 2]
NoTree == [kind |-> "None"]
NoPrediction == [status |-> "none"]

----------------------------------------------------------------------------
(* Construction and lookup *)

InitHist ==
    /\ phase = "new"
    /\ col \in Columns
    /\ max_bins \in 0 .. MaxBins
    /\ bins = <<>>
    /\ gradients = <<>>
    /\ hessians = <<>>
    /\ lookup = NoLookup
    /\ calls = <<>>

InitBuild ==
    /\ InitHist
    /\ tree = NoTree
    /\ features = <<>>
    /\ prediction = NoPrediction

FromFeature ==
    /\ phase = "new"
    /\ LET h == from_feature(col, max_bins)
       IN  /\ phase' = IF h.status = "ok" THEN "built" ELSE "panicked"
           /\ bins' = h.bins
           /\ gradients' = h.gradients
           /\ hessians' = h.hessians
    /\ UNCHANGED <<col, max_bins, lookup, calls, treeVars>>

SearchBinIndex ==
    /\ phase = "built"
    /\ \E v \in QueryVals :
          lookup' = [value |-> v, result |-> search_bin_index(bins, gradients, v)]
    /\ UNCHANGED <<phase, col, max_bins, bins, gradients, hessians, calls, treeVars>>

NextBuild == FromFeature \/ SearchBinIndex

SpecBuild == InitBuild /\ [][NextBuild]_vars

----------------------------------------------------------------------------
(* Histogram::accumulate *)

\* most accumulate calls on one histogram
MaxCalls == 2
\* most samples handed to one histogram over all its accumulate calls; a call
\* counts with the longest of its three slices
MaxSamples == 2
\* the same, for callers that hand over three slices of one length
MaxBatchSamples == 4

\* the values the slices handed to accumulate are drawn from
SampleVals == {1, 2}
GradVals == {3, 33554432}
HessVals == {3}

Max3(a, b, c) ==
    IF a >= b /\ a >= c THEN a ELSE IF b >= c THEN b ELSE c

\* faulty variant: the sums are overwritten (=) instead of added to (+=)
RECURSIVE accumulate_loop_overwrite(_, _, _, _, _, _, _)
accumulate_loop_overwrite(i, bs, gs, hs, fv, g, h) ==
    IF i > Len(fv)
    THEN [status |-> "ok", gradients |-> gs, hessians |-> hs]
    ELSE LET bin_idx == search_bin_index(bs, gs, fv[i])
         IN  IF i > Len(g) \/ bin_idx >= Len(gs)
             THEN [status |-> "panic", gradients |-> gs, hessians |-> hs]
             ELSE LET gs2 == [gs EXCEPT ![bin_idx + 1] = g[i]]
                  IN  IF i > Len(h) \/ bin_idx >= Len(hs)
                      THEN [status |-> "panic", gradients |-> gs2, hessians |-> hs]
                      ELSE accumulate_loop_overwrite(i + 1, bs, gs2,
                                                     [hs EXCEPT ![bin_idx + 1] = h[i]],
                                                     fv, g, h)

\* the loop of accumulate from sample i (1-based) on.  A compound assignment
\* a[k] += b[i] on f32 reads b[i] and then indexes a[k]; either bounds check
\* panics before anything is written.  The gradient sum of sample i is
\* written before the hessian operands are touched.  += is f32 addition.
RECURSIVE accumulate_loop(_, _, _, _, _, _, _)
accumulate_loop(i, bs, gs, hs, fv, g, h) ==
    IF i > Len(fv)
    THEN [status |-> "ok", gradients |-> gs, hessians |-> hs]
    ELSE LET bin_idx == search_bin_index(bs, gs, fv[i])
         IN  IF i > Len(g) \/ bin_idx >= Len(gs)
             THEN [status |-> "panic", gradients |-> gs, hessians |-> hs]
             ELSE LET gs2 == [gs EXCEPT ![bin_idx + 1] = RoundF32(@ + g[i])]
                  IN  IF i > Len(h) \/ bin_idx >= Len(hs)
                      THEN [status |-> "panic", gradients |-> gs2, hessians |-> hs]
                      ELSE accumulate_loop(i + 1, bs, gs2,
                                           [hs EXCEPT ![bin_idx + 1] = RoundF32(@ + h[i])],
                                           fv, g, h)

accumulate(bs, gs, hs, fv, g, h) == accumulate_loop(1, bs, gs, hs, fv, g, h)

RECURSIVE SamplesUsed(_)
SamplesUsed(cs) ==
    IF cs = <<>> THEN 0
    ELSE Max3(Len(Head(cs).feature_values), Len(Head(cs).gradients),
              Len(Head(cs).hessians)) + SamplesUsed(Tail(cs))

\* the columns of the accumulation runs: the strictly ascending ones, one for
\* every histogram from_feature can build
AscendingColumns ==
    {c \in Columns : \A i \in 1 .. Len(c) - 1 : c[i] < c[i + 1]}

InitAccumulate ==
    /\ InitHist
    /\ col \in AscendingColumns
    /\ tree = NoTree
    /\ features = <<>>
    /\ prediction = NoPrediction

\* one call accumulate(fv, g, h) on the histogram
AccumulateCall(fv, g, h) ==
    LET r == accumulate(bins, gradients, hessians, fv, g, h)
    IN  /\ gradients' = r.gradients
        /\ hessians' = r.hessians
        /\ phase' = IF r.status = "ok" THEN "built" ELSE "panicked"
        /\ calls' = Append(calls,
                           [feature_values |-> fv, gradients |-> g,
                            hessians |-> h, status |-> r.status,
                            gradients_after |-> r.gradients,
                            hessians_after |-> r.hessians])
        /\ UNCHANGED <<col, max_bins, bins, lookup, treeVars>>

\* accumulate called with any three slices
Accumulate ==
    /\ phase = "built"
    /\ Len(calls) < MaxCalls
    /\ LET left == MaxSamples - SamplesUsed(calls)
       IN  \E nf \in 0 .. left, ng \in 0 .. left, nh \in 0 .. left :
           \E fv \in [1 .. nf -> SampleVals],
              g \in [1 .. ng -> GradVals],
              h \in [1 .. nh -> HessVals] :
              AccumulateCall(fv, g, h)

\* accumulate called as its precondition asks: three slices of one length
AccumulateBatch ==
    /\ phase = "built"
    /\ Len(calls) < MaxCalls
    /\ LET left == MaxBatchSamples - SamplesUsed(calls)
       IN  \E n \in 0 .. left :
           \E fv \in [1 .. n -> SampleVals],
              g \in [1 .. n -> GradVals],
              h \in [1 .. n -> HessVals] :
              AccumulateCall(fv, g, h)

NextAccumulate == FromFeature \/ Accumulate

SpecAccumulate == InitAccumulate /\ [][NextAccumulate]_vars

\* the batch runs take the largest bin budget: the histograms built from
\* the ascending columns with it are all the histograms there are, a
\* histogram with boundaries bs being the one built from the column bs
InitBatches ==
    /\ InitAccumulate
    /\ max_bins = MaxBins

NextBatches == FromFeature \/ AccumulateBatch

SpecBatches == InitBatches /\ [][NextBatches]_vars

----------------------------------------------------------------------------
(* Tree *)

\* most Split nodes in a tree
MaxSplits == 2
\* longest feature vector handed to predict
MaxFeatures == 2

FeatureIndices == {0, 1}
Thresholds == {5, 7}
LeafValues == {10, 20}
FeatureVals == {3, 5, 7}

Leaf(v) == [kind |-> "Leaf", value |-> v]
Split(f, t, l, r) ==
    [kind |-> "Split", feature_index |-> f, threshold |-> t,
     left_child |-> l, right_child |-> r]

\* the trees with exactly n Split nodes
RECURSIVE TreesWith(_)
TreesWith(n) ==
    IF n = 0 THEN {Leaf(v) : v \in LeafValues}
    ELSE UNION {{Split(f, t, l, r) :
                    f \in FeatureIndices, t \in Thresholds,
                    l \in TreesWith(k), r \in TreesWith(n - 1 - k)} :
                k \in 0 .. n - 1}

Trees == UNION {TreesWith(n) : n \in 0 .. MaxSplits}

\* faulty variant: the comparison is <= instead of <
RECURSIVE predict_recursive_le(_, _)
predict_recursive_le(node, fs) ==
    IF node.kind = "Leaf"
    THEN [status |-> "ok", value |-> node.value]
    ELSE IF node.feature_index >= Len(fs)
    THEN [status |-> "panic"]
    ELSE LET feature_value == fs[node.feature_index + 1]
         IN  IF feature_value <= node.threshold
             THEN predict_recursive_le(node.left_child, fs)
             ELSE predict_recursive_le(node.right_child, fs)

\* faulty variant: a feature index out of range reads 0 instead of failing
RECURSIVE predict_recursive_default(_, _)
predict_recursive_default(node, fs) ==
    IF node.kind = "Leaf"
    THEN [status |-> "ok", value |-> node.value]
    ELSE LET feature_value == IF node.feature_index >= Len(fs)
                              THEN 0 ELSE fs[node.feature_index + 1]
         IN  IF feature_value < node.threshold
             THEN predict_recursive_default(node.left_child, fs)
             ELSE predict_recursive_default(node.right_child, fs)

\* features[*feature_index] panics when the index is out of bounds
RECURSIVE predict_recursive(_, _)
predict_recursive(node, fs) ==
    IF node.kind = "Leaf"
    THEN [status |-> "ok", value |-> node.value]
    ELSE IF node.feature_index >= Len(fs)
    THEN [status |-> "panic"]
    ELSE LET feature_value == fs[node.feature_index + 1]
         IN  IF feature_value < node.threshold
             THEN predict_recursive(node.left_child, fs)
             ELSE predict_recursive(node.right_child, fs)

predict(root, fs) == predict_recursive(root, fs)

\* Tree::new(root) has run: the tree owns some root
InitTree ==
    /\ phase = "new"
    /\ col = <<>>
    /\ max_bins = 0
    /\ bins = <<>>
    /\ gradients = <<>>
    /\ hessians = <<>>
    /\ lookup = NoLookup
    /\ calls = <<>>
    /\ tree \in Trees
    /\ features = <<>>
    /\ prediction = NoPrediction

Predict ==
    /\ tree # NoTree
    /\ \E fs \in SeqsUpTo(FeatureVals, MaxFeatures) :
          /\ features' = fs
          /\ prediction' = predict(tree, fs)
    /\ UNCHANGED <<tree, histVars>>

NextTree == Predict

SpecTree == InitTree /\ [][NextTree]_vars

----------------------------------------------------------------------------
(* Vocabulary of the properties, defined without the operators above *)

Range(s) == {s[i] : i \in DOMAIN s}

\* the number of distinct values of a column
NUnique(c) == Cardinality(Range(c))

\* the distinct value of column c at ascending rank k (0-based)
RankVal(c, k) ==
    CHOOSE v \in Range(c) : Cardinality({w \in Range(c) : w < v}) = k

MinVal(c) == CHOOSE v \in Range(c) : \A w \in Range(c) : v <= w
MaxValOf(c) == CHOOSE v \in Range(c) : \A w \in Range(c) : w <= v

RECURSIVE Reorderings(_)
Reorderings(s) ==
    IF s = <<>> THEN {<<>>}
    ELSE UNION {{<<s[i]>> \o q :
                    q \in Reorderings(SubSeq(s, 1, i - 1) \o SubSeq(s, i + 1, Len(s)))} :
                i \in 1 .. Len(s)}

\* a histogram exists: from_feature returned one (a panic inside accumulate
\* leaves it in place)
HistogramExists == phase = "built" \/ (phase = "panicked" /\ calls # <<>>)

SameLength(c) ==
    /\ Len(c.feature_values) = Len(c.gradients)
    /\ Len(c.gradients) = Len(c.hessians)

\* the samples (call k, position i) of the calls so far that fall into bin b
\* (0-based)
SamplesOfBin(b) ==
    {ki \in UNION {{<<k, i>> : i \in 1 .. Len(calls[k].feature_values)} :
                     k \in 1 .. Len(calls)} :
        search_bin_index(bins, gradients, calls[ki[1]].feature_values[ki[2]]) = b}

RECURSIVE SumOver(_, _)
SumOver(S, field) ==
    IF S = {} THEN 0
    ELSE LET ki == CHOOSE x \in S : TRUE
         IN  calls[ki[1]][field][ki[2]] + SumOver(S \ {ki}, field)

----------------------------------------------------------------------------
(* C1 *)

\* C1 as stated: for every non-empty column and every max_bins the histogram
\* from_feature returns has len(bins) - 1 == len(gradients) == len(hessians),
\* also after any sequence of accumulate calls.  It fails for a column with a
\* single distinct value, whose histogram has one boundary and one stat bin.
C1_AsStated ==
    (HistogramExists /\ col # <<>>) =>
        /\ Len(bins) - 1 = Len(gradients)
        /\ Len(gradients) = Len(hessians)

\* C1 amended: a histogram from_feature returns for a column with at least two
\* distinct values has len(bins) - 1 == len(gradients) == len(hessians); for a
\* column with exactly one distinct value the three lengths are all 1; both
\* still hold after any sequence of accumulate calls.
C1_Lengths ==
    HistogramExists =>
        /\ NUnique(col) >= 2 =>
              /\ Len(bins) - 1 = Len(gradients)
              /\ Len(gradients) = Len(hessians)
        /\ NUnique(col) = 1 =>
              /\ Len(bins) = 1
              /\ Len(gradients) = 1
              /\ Len(hessians) = 1

\* two accumulate calls have run on a histogram with several bins
C1_Witness ==
    /\ phase = "built"
    /\ NUnique(col) >= 3
    /\ Len(bins) >= 3
    /\ Len(calls) = 2
    /\ \E b \in DOMAIN gradients : gradients[b] # 0

----------------------------------------------------------------------------
(* C2 *)

\* C2: for a column with n_unique >= 2 distinct values the histogram
\* from_feature returns has num_bins = min(max_bins, n_unique - 1) stat bins
\* and num_bins + 1 boundaries, boundary i being the distinct value at
\* ascending rank floor(i * (n_unique - 1) / num_bins); so the boundaries are
\* non-decreasing, the first is the minimum, the last the maximum, and every
\* gradient and hessian sum starts at zero.
C2_Boundaries ==
    (phase = "built" /\ NUnique(col) >= 2) =>
        LET n == NUnique(col)
            nb == IF max_bins <= n - 1 THEN max_bins ELSE n - 1
        IN  /\ Len(gradients) = nb
            /\ Len(hessians) = nb
            /\ Len(bins) = nb + 1
            /\ \A i \in 0 .. nb : bins[i + 1] = RankVal(col, (i * (n - 1)) \div nb)
            /\ \A i \in 1 .. nb : bins[i] <= bins[i + 1]
            /\ bins[1] = MinVal(col)
            /\ bins[nb + 1] = MaxValOf(col)
            /\ \A i \in 1 .. nb : gradients[i] = 0 /\ hessians[i] = 0

\* a histogram whose boundary ranks are rounded down: 4 distinct values in 2
\* bins take ranks 0, 1, 3
C2_Witness ==
    /\ phase = "built"
    /\ NUnique(col) = 4
    /\ max_bins = 2
    /\ Len(col) > 0
    /\ bins = <<RankVal(col, 0), RankVal(col, 1), RankVal(col, 3)>>

----------------------------------------------------------------------------
(* C3 *)

\* C3: with at least two distinct values, num_bins = min(max_bins,
\* n_unique - 1) is at least 1 for every max_bins, 0 included, and
\* from_feature always completes with a histogram.
C3_NumBinsPositive ==
    (phase # "new" /\ NUnique(col) >= 2) =>
        /\ (IF max_bins <= NUnique(col) - 1 THEN max_bins ELSE NUnique(col) - 1) >= 1
        /\ phase = "built"

----------------------------------------------------------------------------
(* C4 *)

\* C4: on a histogram with num_bins >= 1 stat bins search_bin_index(value)
\* is 0 for value <= the first boundary, num_bins - 1 for value >= the last
\* boundary, and otherwise the index of the rightmost boundary <= value; it
\* lies in [0, num_bins - 1], and a value equal to an interior boundary
\* bins[k] gets bin k.
C4_Lookup ==
    (phase = "built" /\ lookup # NoLookup /\ Len(gradients) >= 1) =>
        LET nb == Len(gradients)
            v == lookup.value
            r == lookup.result
            first == bins[1]
            last == bins[Len(bins)]
        IN  /\ v <= first => r = 0
            /\ v >= last => r = nb - 1
            /\ (first < v /\ v < last) =>
                  /\ bins[r + 1] <= v
                  /\ \A j \in 1 .. Len(bins) : bins[j] <= v => j <= r + 1
            /\ r \in 0 .. nb - 1
            /\ \A k \in 1 .. nb - 1 : v = bins[k + 1] => r = k

\* a lookup of an interior boundary of a histogram with three bins
C4_Witness ==
    /\ phase = "built"
    /\ Len(gradients) = 3
    /\ lookup.value = bins[3]
    /\ lookup.result = 2

----------------------------------------------------------------------------------------------------------------------------------------------------
(* C5 *)

\* the samples of all calls so far, in the order accumulate visits them
RECURSIVE SamplesInOrder(_)
SamplesInOrder(cs) ==
    IF cs = <<>> THEN <<>>
    ELSE [i \in 1 .. Len(Head(cs).feature_values) |->
             [value |-> Head(cs).feature_values[i],
              gradients |-> Head(cs).gradients[i],
              hessians |-> Head(cs).hessians[i]]]
         \o SamplesInOrder(Tail(cs))

InBin(x, b) == search_bin_index(bins, gradients, x.value) = b

\* the f32 sum, in order and starting from acc, of a field of the samples of bin b
RECURSIVE F32Sum(_, _, _, _)
F32Sum(xs, acc, b, field) ==
    IF xs = <<>> THEN acc
    ELSE F32Sum(Tail(xs),
                IF InBin(Head(xs), b) THEN RoundF32(acc + Head(xs)[field]) ELSE acc,
                b, field)

\* the exact sum of a field of the samples of bin b
RECURSIVE ExactSum(_, _, _)
ExactSum(xs, b, field) ==
    IF xs = <<>> THEN 0
    ELSE (IF InBin(Head(xs), b) THEN Head(xs)[field] ELSE 0)
         + ExactSum(Tail(xs), b, field)

\* no addition of that sum rounds
RECURSIVE NoRounding(_, _, _, _)
NoRounding(xs, acc, b, field) ==
    IF xs = <<>> THEN TRUE
    ELSE IF InBin(Head(xs), b)
    THEN /\ RoundF32(acc + Head(xs)[field]) = acc + Head(xs)[field]
         /\ NoRounding(Tail(xs), acc + Head(xs)[field], b, field)
    ELSE NoRounding(Tail(xs), acc, b, field)

BatchesOnly ==
    /\ HistogramExists
    /\ Len(gradients) >= 1
    /\ \A k \in DOMAIN calls : SameLength(calls[k])

SameBatchTwice ==
    /\ Len(calls) = 2
    /\ calls[1].feature_values = calls[2].feature_values
    /\ calls[1].gradients = calls[2].gradients
    /\ calls[1].hessians = calls[2].hessians

BinsAsBuilt ==
    /\ Len(bins) = (IF NUnique(col) = 1 THEN 1 ELSE Len(gradients) + 1)
    /\ \A i \in DOMAIN bins :
          bins[i] = RankVal(col, ((i - 1) * (NUnique(col) - 1)) \div Len(gradients))

\* C5 as stated: after any sequence of accumulate calls with equal-length
\* inputs on a non-empty histogram each bin's gradient (hessian) sum equals
\* the sum of gradients[i] (hessians[i]) over the samples of all calls that
\* search_bin_index puts in that bin, bins is unchanged, and two calls with
\* the same inputs leave every sum at twice its value after the first.  It
\* fails when an f32 addition rounds: 33554432.0 + 3.0 is 33554436.0.
C5_AsStated ==
    BatchesOnly =>
        /\ phase = "built"
        /\ BinsAsBuilt
        /\ \A b \in 0 .. Len(gradients) - 1 :
              /\ gradients[b + 1] = SumOver(SamplesOfBin(b), "gradients")
              /\ hessians[b + 1] = SumOver(SamplesOfBin(b), "hessians")
        /\ SameBatchTwice =>
              \A b \in 1 .. Len(gradients) :
                  /\ gradients[b] = 2 * calls[1].gradients_after[b]
                  /\ hessians[b] = 2 * calls[1].hessians_after[b]

\* C5 amended: after any sequence of accumulate calls with equal-length
\* inputs on a non-empty histogram every call has returned, bins is
\* unchanged, and each bin's gradient (hessian) sum is the f32 sum, in call
\* and sample order, of gradients[i] (hessians[i]) over the samples that
\* search_bin_index puts in that bin; when none of these additions rounds, it
\* is their exact sum, and two calls with the same inputs leave it at twice
\* its value after the first.
C5_Accumulation ==
    BatchesOnly =>
        /\ phase = "built"
        /\ \A k \in DOMAIN calls : calls[k].status = "ok"
        /\ BinsAsBuilt
        /\ \A b \in 0 .. Len(gradients) - 1 :
              LET xs == SamplesInOrder(calls)
              IN  /\ gradients[b + 1] = F32Sum(xs, 0, b, "gradients")
                  /\ hessians[b + 1] = F32Sum(xs, 0, b, "hessians")
                  /\ NoRounding(xs, 0, b, "gradients") =>
                        /\ gradients[b + 1] = ExactSum(xs, b, "gradients")
                        /\ SameBatchTwice =>
                              gradients[b + 1] = 2 * calls[1].gradients_after[b + 1]
                  /\ NoRounding(xs, 0, b, "hessians") =>
                        /\ hessians[b + 1] = ExactSum(xs, b, "hessians")
                        /\ SameBatchTwice =>
                              hessians[b + 1] = 2 * calls[1].hessians_after[b + 1]

\* the same batch of two samples accumulated twice into one bin of a
\* histogram with two bins, no addition rounding
C5_Witness ==
    /\ phase = "built"
    /\ Len(gradients) = 2
    /\ SameBatchTwice
    /\ Len(calls[1].feature_values) = 2
    /\ SameLength(calls[1])
    /\ \E b \in 0 .. 1 :
          /\ Cardinality(SamplesOfBin(b)) = 4
          /\ NoRounding(SamplesInOrder(calls), 0, b, "gradients")
          /\ gradients[b + 1] = 12
          /\ hessians[b + 1] = 12

\* the same batch accumulated twice where the additions round: the sum is
\* not twice its value after the first call
C5_RoundingWitness ==
    /\ phase = "built"
    /\ SameBatchTwice
    /\ SameLength(calls[1])
    /\ \E b \in 1 .. Len(gradients) :
          gradients[b] # 2 * calls[1].gradients_after[b]

----
(* C6 *)

\* C6: an accumulate call whose three slices do not all have the same length
\* fails; it never returns having used only a prefix of one of them.
C6_MismatchFails ==
    \A k \in DOMAIN calls :
        ~SameLength(calls[k]) => calls[k].status = "panic"

----------------------------------------------------------------------------
(* C7 *)

\* C7: on a histogram built from zero samples every search_bin_index and
\* every accumulate call fails; no lookup returns a bin index and no
\* accumulate call returns.
C7_EmptyHistogramFails ==
    (HistogramExists /\ bins = <<>>) =>
        /\ lookup = NoLookup
        /\ \A k \in DOMAIN calls : calls[k].status = "panic"

----------------------------------------------------------------------------
(* C10 *)

\* C10: from_feature is order-independent: every permutation of the column
\* gives the same outcome, the same bins, gradients and hessians.
C10_OrderIndependent ==
    phase # "new" /\ calls = <<>> =>
        \A q \in Reorderings(col) :
            LET h == from_feature(q, max_bins)
            IN  /\ (h.status = "ok") = (phase = "built")
                /\ h.bins = bins
                /\ h.gradients = gradients
                /\ h.hessians = hessians

\* a histogram built from an unsorted column with a repeated value
C10_Witness ==
    /\ phase = "built"
    /\ Len(bins) >= 3
    /\ NUnique(col) < Len(col)
    /\ \E i \in 1 .. Len(col) - 1 : col[i] > col[i + 1]

----------------------------------------------------------------------------
(* C8, C9 *)

Paths == SeqsUpTo({"L", "R"}, MaxSplits)

\* the node a path of left/right turns leads to from node t
RECURSIVE NodeAt(_, _)
NodeAt(t, p) ==
    IF p = <<>> THEN t
    ELSE IF t.kind # "Split" THEN NoTree
    ELSE NodeAt(IF Head(p) = "L" THEN t.left_child ELSE t.right_child, Tail(p))

\* p is a prefix of the descent from the root on feature vector fs: every
\* turn leaves a Split whose feature index is in range, left exactly when the
\* feature is below the threshold
Descends(t, fs, p) ==
    \A k \in 1 .. Len(p) :
        LET n == NodeAt(t, SubSeq(p, 1, k - 1))
        IN  /\ n.kind = "Split"
            /\ n.feature_index < Len(fs)
            /\ (p[k] = "L") <=> (fs[n.feature_index + 1] < n.threshold)

\* C8: when every feature index on the visited path is in range, predict
\* returns the value of the leaf the descent ends in, left exactly when
\* features[feature_index] < threshold, so a feature equal to the threshold
\* goes right (split on feature 0 at 5 over leaves 10 and 20: <<3>> gives 10,
\* <<5>> gives 20); the tree is not modified.
C8_Predict ==
    /\ [](prediction.status # "none" =>
            /\ \A p \in Paths :
                  (Descends(tree, features, p) /\ NodeAt(tree, p).kind = "Leaf") =>
                      prediction = [status |-> "ok", value |-> NodeAt(tree, p).value]
            /\ tree = Split(0, 5, Leaf(10), Leaf(20)) =>
                  /\ features = <<3>> => prediction = [status |-> "ok", value |-> 10]
                  /\ features = <<5>> => prediction = [status |-> "ok", value |-> 20])
    /\ [][tree' = tree]_vars

\* a prediction that passed two splits, the root's feature equal to its
\* threshold and routed right
C8_Witness ==
    /\ prediction.status = "ok"
    /\ tree.kind = "Split"
    /\ tree.feature_index < Len(features)
    /\ features[tree.feature_index + 1] = tree.threshold
    /\ tree.right_child.kind = "Split"
    /\ prediction.value = (IF features[tree.right_child.feature_index + 1]
                                 < tree.right_child.threshold
                           THEN tree.right_child.left_child.value
                           ELSE tree.right_child.right_child.value)

\* C9: when the descent reaches a Split whose feature_index is >= the length
\* of the feature vector, predict fails and returns no value.
C9_OutOfRangeFails ==
    prediction.status # "none" =>
        \A p \in Paths :
            (/\ Descends(tree, features, p)
             /\ NodeAt(tree, p).kind = "Split"
             /\ NodeAt(tree, p).feature_index >= Len(features)) =>
                prediction = [status |-> "panic"]

\* a prediction that failed at the second split after passing the root
C9_Witness ==
    /\ prediction = [status |-> "panic"]
    /\ tree.kind = "Split"
    /\ tree.feature_index < Len(features)
    /\ features # <<>>

====
